---- MODULE Spec2Model ----
(***************************************************************************)
(* Model of `hermit analyze` (hermit-cli/src/bin/hermit/analyze/phases.rs):*)
(* the six-phase pipeline that establishes a matching target run, chooses  *)
(* a non-matching baseline and bisects between their schedules.            *)
(*                                                                         *)
(* The analyzer is sequential.  Every action below is one step of          *)
(* AnalyzeOpts::main: a phase, or one iteration of a loop that launches a  *)
(* subprocess run.  The deterministic runtime, the preemption record       *)
(* library, the minimizer, the log-diff tool and the schedule bisector are *)
(* other files of the repository; they are modelled from their documented  *)
(* contract.                                                               *)
(***************************************************************************)
EXTENDS Integers, Sequences, FiniteSets, TLC

VARIABLES
    opts,     \* AnalyzeOpts: the command line, fixed after construction
    rt,       \* the traced program and the runtime it runs under
    pc,       \* position of main
    env,      \* the file system and the history of launched runs
    loc,      \* local variables of main and of the running phase
    started   \* the phases entered so far, in order

vars == <<opts, rt, pc, env, loc, started>>

(***************************************************************************)
(* Bounds                                                                  *)
(***************************************************************************)
NPreempts == 2      \* preemption points of the traced program
MaxRounds == 3      \* search rounds explored (the code's loop is unbounded)
MaxKnockouts == 3   \* knockout iterations explored (the code's loop is unbounded)
BisectLen == 4      \* schedule length of the stand-alone bisection runs

Preempts == 1..NPreempts
NEvents == NPreempts + 1

\* Option<T>: <<>> is None, <<x>> is Some(x)
NoneOpt == <<>>
Some(x) == <<x>>
IsSome(o) == o # <<>>

(***************************************************************************)
(* Workspace paths: tmp_dir.join(runname).with_extension(ext)              *)
(***************************************************************************)
LOG_EXT == "log"
PREEMPTS_EXT == "preempts"
SCHED_EXT == "events"

WsPath(runname, idx, ext) == [dir |-> "tmp_dir", run |-> runname, idx |-> idx, ext |-> ext]
UserPath(name) == [dir |-> "user", run |-> name, idx |-> 0, ext |-> PREEMPTS_EXT]

log_path(runname, idx) == WsPath(runname, idx, LOG_EXT)
preempts_path(runname, idx) == WsPath(runname, idx, PREEMPTS_EXT)

(***************************************************************************)
(* PreemptionRecord (detcore::preemptions)                                 *)
(***************************************************************************)
MkRecord(pre, other, norm, valid, sched) ==
    [pre |-> pre, other |-> other, norm |-> norm, valid |-> valid, sched |-> sched]

NoRecord == MkRecord({}, FALSE, FALSE, FALSE, <<>>)

\* What a run writes to record_preemptions_to: its preemptions, the other
\* scheduling entries, and the global schedule it executed.
Recorded(pre, sched) == MkRecord(pre, TRUE, FALSE, TRUE, sched)

normalize(r) == [r EXCEPT !.norm = TRUE]
preemptions_only(r) == [r EXCEPT !.other = FALSE, !.sched = <<>>]
strip_contents(r) == [r EXCEPT !.pre = {}]
LatestPreempt(S) == CHOOSE p \in S : \A q \in S : q <= p
with_latest_preempt_removed(r) ==
    IF r.pre = {} THEN r ELSE [r EXCEPT !.pre = r.pre \ {LatestPreempt(r.pre)}]
validate(r) == r.valid
from_sched_events(s) == MkRecord({}, FALSE, FALSE, TRUE, s)

(***************************************************************************)
(* The traced program under the deterministic runtime.                     *)
(* A schedule is a sequence of events without repetition.  Preemption p    *)
(* exchanges the events at positions p and p+1 of the schedule so far.     *)
(* rt.race is a set of pairs of events: the program fails exactly when the *)
(* first event of one of the pairs runs before the second.                 *)
(***************************************************************************)
Identity(n) == [i \in 1..n |-> i]
Swap(s, p) ==
    [i \in DOMAIN s |-> IF i = p THEN s[p + 1] ELSE IF i = p + 1 THEN s[p] ELSE s[i]]
Lowest(S) == CHOOSE p \in S : \A q \in S : p <= q

RECURSIVE ApplyPreempts(_, _)
ApplyPreempts(s, S) ==
    IF S = {} THEN s ELSE ApplyPreempts(Swap(s, Lowest(S)), S \ {Lowest(S)})

SchedOfPreempts(S) == ApplyPreempts(Identity(NEvents), S)
Reverse(s) == [i \in DOMAIN s |-> s[Len(s) + 1 - i]]

RECURSIVE Pow2(_)
Pow2(n) == IF n = 0 THEN 1 ELSE 2 * Pow2(n - 1)
SeedSpace == Pow2(NPreempts)
Seeds == 0..(SeedSpace - 1)
\* The preemptions a chaos run under `seed` injects.
PreemptsOfSeed(seed) == {p \in Preempts : (seed \div Pow2(p - 1)) % 2 = 1}

Pos(s, e) == CHOOSE i \in DOMAIN s : s[i] = e
Precedes(s, a, b) ==
    /\ \E i \in DOMAIN s : s[i] = a
    /\ \E i \in DOMAIN s : s[i] = b
    /\ Pos(s, a) < Pos(s, b)

Fails(race, s) == \E r \in race : Precedes(s, r[1], r[2])

\* reverie::process::Output of one run of the traced program
ProgramOutput(race, s) ==
    [stdout |-> {"started"},
     stderr |-> IF Fails(race, s) THEN {"DEADLOCK"} ELSE {},
     status |-> IF Fails(race, s) THEN 139 ELSE 0]

(***************************************************************************)
(* The criterion                                                           *)
(***************************************************************************)
ExitAny == [kind |-> "Any", code |-> 0]
ExitNonZero == [kind |-> "NonZero", code |-> 0]
ExitExact(n) == [kind |-> "Exact", code |-> n]

\* ExitStatusConstraint::is_match
exit_is_match(c, status) ==
    CASE c.kind = "Any" -> TRUE
      [] c.kind = "NonZero" -> status # 0
      [] OTHER -> status = c.code

\* Regex::is_match on the lossily decoded stream: a pattern is one token
pat_is_match(pat, stream) == pat \in stream

has_filters(o) ==
    \/ IsSome(o.target_stdout)
    \/ IsSome(o.target_stderr)
    \/ o.target_exit_code # ExitAny

\* With --verbose the stderr branch prints before it looks at the pattern.
output_matches_verbose_mismatch(o, out) ==
    LET a1 == IF IsSome(o.target_stdout) /\ ~pat_is_match(o.target_stdout[1], out.stdout)
              THEN FALSE ELSE TRUE
        a2 == IF IsSome(o.target_stderr)
                 /\ (o.verbose \/ ~pat_is_match(o.target_stderr[1], out.stderr))
              THEN FALSE ELSE a1
        a3 == IF ~exit_is_match(o.target_exit_code, out.status) THEN FALSE ELSE a2
    IN  a3

output_matches(o, out) ==
    LET a1 == IF IsSome(o.target_stdout) /\ ~pat_is_match(o.target_stdout[1], out.stdout)
              THEN FALSE ELSE TRUE
        a2 == IF IsSome(o.target_stderr) /\ ~pat_is_match(o.target_stderr[1], out.stderr)
              THEN FALSE ELSE a1
        a3 == IF ~exit_is_match(o.target_exit_code, out.status) THEN FALSE ELSE a2
    IN  a3

(***************************************************************************)
(* Files and run history                                                   *)
(***************************************************************************)
NoLog == [sched |-> <<>>, chaosrand |-> 0, noise |-> 0]

\* `by` and `m` are history: the run that produced the bytes and whether its
\* output matched the criterion ("analyzer", FALSE for write_to_disk).
MkFile(rec, log, by, m) == [rec |-> rec, log |-> log, by |-> by, m |-> m]
RecordFile(rec) == MkFile(rec, NoLog, "analyzer", FALSE)
StreamFile(by) == MkFile(NoRecord, NoLog, by, FALSE)

Exists(e, p) == p \in DOMAIN e.files

Write(e, p, c) ==
    [e EXCEPT !.files = (p :> c) @@ @,
              !.written = @ \cup {p},
              !.rewritten = IF p \in e.written THEN @ \cup {p} ELSE @]

\* PreemptionRecord::write_to_disk
write_to_disk(e, rec, p) == Write(e, p, RecordFile(rec))
\* PreemptionReader::new(p).load_all()
load_all(e, p) == e.files[p].rec
\* detcore::preemptions::read_trace
read_trace(e, p) == e.files[p].rec.sched
\* std::fs::copy
Copy(e, from, to) == Write(e, to, e.files[from])

preempt_files_equal(e, p1, p2) == load_all(e, p1) = load_all(e, p2)

\* hermit log-diff --ignore-lines=CHAOSRAND: success iff no other line differs
log_diff_preemption_replay(e, p1, p2) ==
    /\ e.files[p1].log.sched = e.files[p2].log.sched
    /\ e.files[p1].log.noise = e.files[p2].log.noise

(***************************************************************************)
(* RunOpts                                                                 *)
(***************************************************************************)
DefaultRunOpts(noseq) ==
    [no_sequentialize_threads |-> noseq,
     sequentialize_threads |-> ~noseq,
     seed |-> NoneOpt,
     sched_seed |-> NoneOpt,
     record_preemptions |-> FALSE,
     record_preemptions_to |-> NoneOpt,
     replay_preemptions_from |-> NoneOpt,
     replay_schedule_from |-> NoneOpt,
     stacktrace_event |-> <<>>,
     chaos |-> FALSE,
     imprecise_timers |-> FALSE,
     summary |-> FALSE,
     bind |-> {}]

Ok(ro) == [err |-> FALSE, ro |-> ro]
Bail(ro) == [err |-> TRUE, ro |-> ro]

\* RunOpts::from_iter over the user's run arguments
RunOptsFromArgs(run_args) ==
    [DefaultRunOpts(run_args.no_sequentialize_threads) EXCEPT !.chaos = run_args.chaos]

get_base_runopts_nobail(o) ==
    LET ro == RunOptsFromArgs(o.run_args)
    IN  Ok([ro EXCEPT !.bind = {"tmp_dir"}])

get_base_runopts(o) ==
    LET ro == RunOptsFromArgs(o.run_args)
    IN  IF ro.no_sequentialize_threads
        THEN Bail(ro)
        ELSE Ok([ro EXCEPT !.bind = {"tmp_dir"}])

get_run1_runopts(o) ==
    LET b == get_base_runopts(o)
    IN  IF b.err THEN b
        ELSE IF IsSome(o.run1_seed)
             THEN Ok([b.ro EXCEPT !.seed = o.run1_seed])
             ELSE IF IsSome(o.run1_preemptions)
                  THEN Ok([b.ro EXCEPT !.replay_preemptions_from = o.run1_preemptions])
                  ELSE b

get_run2_runopts(o) ==
    LET b == get_base_runopts(o)
    IN  IF b.err THEN b
        ELSE IF IsSome(o.run2_seed)
             THEN Ok([b.ro EXCEPT !.seed = o.run2_seed])
             ELSE IF IsSome(o.run2_preemptions)
                  THEN Ok([b.ro EXCEPT !.replay_preemptions_from = o.run2_preemptions])
                  ELSE b

(***************************************************************************)
(* The runtime: RunOpts::run_verify                                        *)
(***************************************************************************)
\* The seed that drives a run that replays nothing: --sched-seed, else --seed,
\* else the default seed 0.
DrivingSeed(ro) ==
    IF IsSome(ro.sched_seed) THEN ro.sched_seed[1]
    ELSE IF IsSome(ro.seed) THEN ro.seed[1] ELSE 0

ReplaysSchedule(ro) == IsSome(ro.replay_schedule_from)
ReplaysPreempts(ro) == ~ReplaysSchedule(ro) /\ IsSome(ro.replay_preemptions_from)
IsSeeded(ro) == ~ReplaysSchedule(ro) /\ ~ReplaysPreempts(ro)

\* The schedule the run executes.  With quirk "unfaithful" a seeded run does
\* not execute the schedule its recorded preemptions replay to.
RunSchedule(r, files, ro) ==
    IF ReplaysSchedule(ro) THEN files[ro.replay_schedule_from[1]].rec.sched
    ELSE IF ReplaysPreempts(ro)
         THEN SchedOfPreempts(files[ro.replay_preemptions_from[1]].rec.pre)
         ELSE IF r.quirk = "unfaithful"
              THEN Reverse(SchedOfPreempts(PreemptsOfSeed(DrivingSeed(ro))))
              ELSE SchedOfPreempts(PreemptsOfSeed(DrivingSeed(ro)))

\* The preemptions the run records.  With quirk "drift" a preemption replay
\* records other preemptions than it replayed.
RunPreempts(r, files, ro) ==
    IF ReplaysSchedule(ro) THEN {}
    ELSE IF ReplaysPreempts(ro)
         THEN LET pre == files[ro.replay_preemptions_from[1]].rec.pre
              IN  IF r.quirk = "drift" THEN (IF 1 \in pre THEN pre \ {1} ELSE pre \cup {1})
                  ELSE pre
         ELSE PreemptsOfSeed(DrivingSeed(ro))

\* The log of the run.  With quirk "noise" a replay logs a line the recording
\* run did not.
RunLog(r, files, ro) ==
    [sched |-> RunSchedule(r, files, ro),
     chaosrand |-> IF IsSeeded(ro) THEN DrivingSeed(ro) + 1 ELSE 0,
     noise |-> IF ~IsSeeded(ro) /\ r.quirk = "noise" THEN 1 ELSE 0]

(***************************************************************************)
(* Launching runs                                                          *)
(***************************************************************************)
print_and_validate_runopts(o, ro) ==
    IF o.verbose THEN [ro EXCEPT !.summary = TRUE] ELSE ro

\* The runtime writes a stack trace to `path` when event number `event`
\* (counted from 0) of the schedule fires.
RECURSIVE WriteStacks(_, _, _, _)
WriteStacks(e, evs, sched, by) ==
    IF evs = <<>> THEN e
    ELSE LET ev == Head(evs)
             e1 == IF ev.event >= 0 /\ ev.event < Len(sched)
                   THEN Write(e, ev.path, StreamFile(by)) ELSE e
         IN  WriteStacks(e1, Tail(evs), sched, by)

\* launch_config: one run.  `phase` is history only.
launch_config(e, phase, runname, idx, ro0) ==
    LET ro == print_and_validate_runopts(opts, ro0)
        lp == log_path(runname, idx)
        sched == RunSchedule(rt, e.files, ro)
        out == ProgramOutput(rt.race, sched)
        is_a_match == output_matches(opts, out)
        e1 == Write(e, lp, MkFile(NoRecord, RunLog(rt, e.files, ro), runname, is_a_match))
        e2 == IF IsSome(ro.record_preemptions_to)
              THEN Write(e1, ro.record_preemptions_to[1],
                         MkFile(Recorded(RunPreempts(rt, e.files, ro), sched),
                                NoLog, runname, is_a_match))
              ELSE e1
        e3 == Write(e2, WsPath(runname, idx, "stdout"), StreamFile(runname))
        e4 == Write(e3, WsPath(runname, idx, "stderr"), StreamFile(runname))
        e5 == WriteStacks(e4, ro.stacktrace_event, sched, runname)
        run == [name |-> runname, idx |-> idx, ro |-> ro, phase |-> phase,
                out |-> out, is_a_match |-> is_a_match]
    IN  [err |-> FALSE,
         env |-> [e5 EXCEPT !.runs = Append(@, run)],
         is_a_match |-> is_a_match,
         log_path |-> lp]

NotLaunched(e) == [err |-> TRUE, env |-> e, is_a_match |-> FALSE, log_path |-> log_path("", 0)]

launch_search(e, phase, round, sched_seed) ==
    LET pp == preempts_path("search_round", round)
        b == get_base_runopts(opts)
        ro == [b.ro EXCEPT !.sched_seed = Some(sched_seed),
                           !.record_preemptions = TRUE,
                           !.record_preemptions_to = Some(pp),
                           !.imprecise_timers = opts.imprecise_search]
        r == IF b.err THEN NotLaunched(e) ELSE launch_config(e, phase, "search_round", round, ro)
    IN  [err |-> r.err, env |-> r.env,
         found |-> IF r.is_a_match THEN Some(pp) ELSE NoneOpt]

launch_and_record_preempts(e, phase, runname, runopts) ==
    launch_config(e, phase, runname, 0,
                  [runopts EXCEPT !.record_preemptions = TRUE,
                                  !.record_preemptions_to = Some(preempts_path(runname, 0))])

launch_from_preempts_to_sched(e, phase, runname, pp, record_sched_path) ==
    LET b == get_base_runopts(opts)
        ro == [b.ro EXCEPT !.replay_preemptions_from = Some(pp),
                           !.record_preemptions_to = record_sched_path]
    IN  IF b.err THEN NotLaunched(e) ELSE launch_config(e, phase, runname, 0, ro)

(***************************************************************************)
(* State                                                                   *)
(***************************************************************************)
NoPath == WsPath("", 0, "")

normalized_preempts_path == WsPath("final", 0, PREEMPTS_EXT)
target_sched_events_path == WsPath("first_matching", 0, SCHED_EXT)
final_pass_preempts_path == WsPath("final_pass", 0, PREEMPTS_EXT)
run2_sched_path == preempts_path("run2_baseline", 0)

InitLoc ==
    [error |-> "",
     run1_log_path |-> NoPath,
     preempts_path |-> NoPath,
     rng |-> 0,
     round |-> 0,
     min_preempts |-> NoRecord,
     min_preempts_path |-> NoPath,
     min_log_path |-> NoPath,
     normalized_preempts |-> NoRecord,
     pr |-> NoRecord,
     knockouts |-> 0,
     final_pr |-> NoRecord,
     non_matching_sched_events_path |-> NoPath,
     target |-> <<>>,
     baseline |-> <<>>,
     i |-> 0,
     lo |-> 0,
     hi |-> 0,
     failing_schedule |-> <<>>,
     passing_schedule |-> <<>>,
     critical_event_index |-> 0,
     report |-> NoneOpt,
     exit |-> NoneOpt]

\* Files the user names on the command line, present before main starts.
run1_user_path == UserPath("run1")
run2_user_path == UserPath("run2")
UserRecord(pre, valid) == MkRecord(pre, TRUE, FALSE, valid, <<>>)
UserFile(rec) == MkFile(rec, NoLog, "user", FALSE)

Run1Records == {UserRecord(Preempts, TRUE), UserRecord(Preempts, FALSE)}
Run2Records == {UserRecord({}, TRUE), UserRecord({}, FALSE)}

NoFilters ==
    [target_stdout |-> NoneOpt, target_stderr |-> NoneOpt, target_exit_code |-> ExitAny]
Criteria ==
    {NoFilters,
     [NoFilters EXCEPT !.target_exit_code = ExitNonZero],
     [NoFilters EXCEPT !.target_exit_code = ExitExact(0)],
     [NoFilters EXCEPT !.target_stderr = Some("DEADLOCK"), !.target_exit_code = ExitExact(0)]}

\* The program fails when a later event of the unpreempted schedule overtakes
\* an earlier one.
Races == {{r} : r \in {q \in (1..NEvents) \X (1..NEvents) : q[2] < q[1]}}
Quirks == {"none", "noise", "drift", "unfaithful"}

\* <<run1_seed, run1_preemptions, content of the run1 file>>
Run1Choices ==
    {<<s, NoneOpt, UserRecord(Preempts, TRUE)>> : s \in {NoneOpt, Some(SeedSpace - 1)}}
    \cup {<<NoneOpt, Some(run1_user_path), rec>> : rec \in Run1Records}
\* <<report_file, success_exit_code>>: read only at the end of main, and
\* varied under the exit-code criteria.
ReportChoices(crit) ==
    IF crit.target_exit_code # ExitAny /\ ~IsSome(crit.target_stderr)
    THEN {<<NoneOpt, NoneOpt>>, <<Some(UserPath("report")), Some(3)>>}
    ELSE {<<NoneOpt, NoneOpt>>}
\* <<run2_seed, run2_preemptions, content of the run2 file>>
Run2Choices ==
    {<<NoneOpt, NoneOpt, UserRecord({}, TRUE)>>, <<Some(0), NoneOpt, UserRecord({}, TRUE)>>}
    \cup {<<NoneOpt, Some(run2_user_path), rec>> : rec \in Run2Records}

MkOpts(noseq, crit, r1s, r1p, r2s, r2p, search, minimize, selfcheck, aseed) ==
    [run_args |-> [no_sequentialize_threads |-> noseq, chaos |-> FALSE],
     target_stdout |-> crit.target_stdout,
     target_stderr |-> crit.target_stderr,
     target_exit_code |-> crit.target_exit_code,
     run1_seed |-> r1s,
     run1_preemptions |-> r1p,
     run2_seed |-> r2s,
     run2_preemptions |-> r2p,
     search |-> search,
     minimize |-> minimize,
     selfcheck |-> selfcheck,
     analyze_seed |-> aseed,
     verbose |-> FALSE,
     imprecise_search |-> FALSE,
     report_file |-> NoneOpt,
     success_exit_code |-> NoneOpt]

\* --report-file and --success-exit-code
WithReport(o, report_file, success_exit_code) ==
    [o EXCEPT !.report_file = report_file, !.success_exit_code = success_exit_code]

\* --chaos among the run arguments
WithChaos(o, chaos) == [o EXCEPT !.run_args.chaos = chaos]

EmptyEnv == [files |-> <<>>, runs |-> <<>>, written |-> {}, rewritten |-> {}]

InitEnv(rec1, rec2) ==
    [EmptyEnv EXCEPT !.files = (run1_user_path :> UserFile(rec1)) @@
                               (run2_user_path :> UserFile(rec2))]

\* Every command line of the bounded option space, with every traced program
\* and runtime the analyzer can tell apart under it: --search and
\* --analyze-seed are read only without --run1-preemptions, the log and the
\* re-recorded preemptions of a replay only under --selfcheck, and nothing is
\* run at all with --no-sequentialize-threads.  --chaos among the run
\* arguments is carried to every run and varied for the command lines that
\* search without --minimize and --selfcheck.
Init ==
    /\ pc = "main"
    /\ started = <<>>
    /\ loc = InitLoc
    /\ \E noseq \in BOOLEAN :
       \E crit \in (IF noseq THEN {NoFilters} ELSE Criteria) :
       \E race \in (IF noseq THEN {{<<2, 1>>}} ELSE Races) :
       \E run1 \in Run1Choices :
       \E search \in (IF IsSome(run1[2]) THEN {FALSE} ELSE BOOLEAN) :
       \E aseed \in (IF search THEN {NoneOpt, Some(0)} ELSE {NoneOpt}) :
       \E selfcheck \in BOOLEAN :
       \E quirk \in (IF noseq THEN {"none"}
                     ELSE IF selfcheck THEN Quirks ELSE {"none", "unfaithful"}) :
       \E minimize \in BOOLEAN :
       \E run2 \in Run2Choices :
       \E rep \in ReportChoices(crit) :
       \E chaos \in (IF search /\ ~minimize /\ ~selfcheck THEN BOOLEAN ELSE {TRUE}) :
        /\ opts = WithChaos(WithReport(MkOpts(noseq, crit, run1[1], run1[2], run2[1], run2[2],
                                              search, minimize, selfcheck, aseed),
                                       rep[1], rep[2]),
                            chaos)
        /\ rt = [race |-> race, quirk |-> quirk]
        /\ env = InitEnv(run1[3], run2[3])

Matches(sched) == output_matches(opts, ProgramOutput(rt.race, sched))

Halt(kind, msg) ==
    /\ pc' = kind
    /\ loc' = [loc EXCEPT !.error = msg]

(***************************************************************************)
(* Phase 1: phase1_establish_target_run and do_search                      *)
(***************************************************************************)
\* Pcg64Mcg: a full-period generator over the seed space
RngNext(st) == (5 * st + 3) % SeedSpace

SearchSeeds_entropy(o) == Seeds
SearchSeeds(o) == IF IsSome(o.analyze_seed) THEN {o.analyze_seed[1]} ELSE Seeds

\* What phase 1 does with the result of its first run
after_first_run_always_searches(is_a_match, search) ==
    IF search THEN "search" ELSE IF is_a_match THEN "return" ELSE "bail"
after_first_run(is_a_match, search) ==
    IF ~is_a_match THEN (IF search THEN "search" ELSE "bail") ELSE "return"

Phase1 ==
    /\ pc = "main"
    /\ started' = Append(started, 1)
    /\ UNCHANGED <<opts, rt>>
    /\ LET run1 == get_run1_runopts(opts)
           pp == preempts_path("phase1_target", 0)
           ret == [loc EXCEPT !.run1_log_path = log_path("phase1_target", 0),
                              !.preempts_path = pp]
       IN  IF run1.err
           THEN Halt("error", "cannot search through executions with --no-sequentialize-threads")
                /\ UNCHANGED env
           ELSE IF IsSome(opts.run1_preemptions)
           THEN /\ env' = Copy(env, opts.run1_preemptions[1], pp)
                /\ IF opts.selfcheck
                   THEN Halt("panic", "todo")
                   ELSE pc' = "phase2" /\ loc' = ret
           ELSE LET r == launch_and_record_preempts(env, 1, "phase1_target", run1.ro)
                IN  /\ env' = r.env
                    /\ CASE after_first_run(r.is_a_match, opts.search) = "return" ->
                              pc' = "phase2" /\ loc' = ret
                         [] after_first_run(r.is_a_match, opts.search) = "search" ->
                              /\ pc' = "search"
                              /\ \E search_seed \in SearchSeeds(opts) :
                                   loc' = [ret EXCEPT !.rng = search_seed, !.round = 0]
                         [] OTHER ->
                              Halt("error", "The run did not match the target criteria. Try --search.")

next_round_stuck(round) == round
next_round(round) == round + 1

\* One iteration of do_search's loop
SearchRound ==
    /\ pc = "search"
    /\ loc.round < MaxRounds
    /\ UNCHANGED <<opts, rt, started>>
    /\ LET sched_seed == RngNext(loc.rng)
           r == launch_search(env, 1, loc.round, sched_seed)
       IN  IF r.err
           THEN Halt("panic", "launch_search") /\ env' = r.env
           ELSE IF IsSome(r.found)
           THEN /\ env' = Copy(r.env, r.found[1], loc.preempts_path)
                /\ loc' = [loc EXCEPT !.rng = sched_seed]
                /\ pc' = "phase2"
           ELSE /\ env' = r.env
                /\ loc' = [loc EXCEPT !.rng = sched_seed, !.round = next_round(loc.round)]
                /\ pc' = "search"

(***************************************************************************)
(* Phase 2: phase2_minimize                                                *)
(***************************************************************************)
min_path == preempts_path("minimized", 0)

\* AnalyzeOpts::minimize (analyze/minimize.rs): given a record whose replay
\* matches, returns a record with a subset of its preemptions whose replay
\* still matches, the file that holds it and the log of that replay.
Minimized(in, S) == [in EXCEPT !.pre = S, !.sched = SchedOfPreempts(S)]

\* main: maybe_min_log.unwrap_or(run1_log_path)
main_min_log_path_minimized(maybe_min_log, run1_log_path) == log_path("minimized", 0)
main_min_log_path(maybe_min_log, run1_log_path) ==
    IF IsSome(maybe_min_log) THEN maybe_min_log[1] ELSE run1_log_path

Phase2 ==
    /\ pc = "phase2"
    /\ started' = Append(started, 2)
    /\ UNCHANGED <<opts, rt>>
    /\ IF opts.minimize
       THEN LET in == load_all(env, loc.preempts_path)
            IN  IF ~Matches(SchedOfPreempts(in.pre))
                THEN Halt("error", "minimize: input does not match") /\ UNCHANGED env
                ELSE \E S \in SUBSET in.pre :
                       /\ Matches(SchedOfPreempts(S))
                       /\ LET min_pr == Minimized(in, S)
                              r == launch_from_preempts_to_sched(
                                       write_to_disk(env, min_pr, min_path),
                                       2, "minimized", min_path, NoneOpt)
                          IN  /\ env' = r.env
                              /\ pc' = "phase3"
                              /\ loc' = [loc EXCEPT !.min_preempts = min_pr,
                                                    !.min_preempts_path = min_path,
                                                    !.min_log_path =
                                                        main_min_log_path(Some(r.log_path),
                                                                          loc.run1_log_path)]
       ELSE /\ UNCHANGED env
            /\ pc' = "phase3"
            /\ loc' = [loc EXCEPT !.min_preempts = load_all(env, loc.preempts_path),
                                  !.min_preempts_path = loc.preempts_path,
                                  !.min_log_path =
                                      main_min_log_path(NoneOpt, loc.run1_log_path)]

(***************************************************************************)
(* Phase 3: phase3_strict_preempt_replay_check                             *)
(***************************************************************************)
\* The three checks of the self-check, in the order the code makes them
selfcheck_verdict_no_logdiff(second_matches, status, preempts_equal) ==
    IF ~second_matches THEN "First run matched criteria but second run did not."
    ELSE IF ~preempts_equal THEN "no fixed point"
    ELSE ""
selfcheck_verdict_lax(second_matches, status, preempts_equal) ==
    IF ~second_matches THEN "First run matched criteria but second run did not."
    ELSE IF ~status THEN "Log differences found"
    ELSE ""
selfcheck_verdict(second_matches, status, preempts_equal) ==
    IF ~second_matches THEN "First run matched criteria but second run did not."
    ELSE IF ~status THEN "Log differences found"
    ELSE IF ~preempts_equal THEN "no fixed point"
    ELSE ""

\* main's `?` on the result of phase 3
main_after_phase3_ignored(err) == "target"
main_after_phase3(err) == IF err THEN "error" ELSE "target"

Phase3 ==
    /\ pc = "phase3"
    /\ started' = Append(started, 3)
    /\ UNCHANGED <<opts, rt>>
    /\ IF opts.selfcheck
       THEN LET run1b == get_run1_runopts(opts)
                run1b_opts == [run1b.ro EXCEPT
                                 !.replay_preemptions_from = Some(loc.min_preempts_path)]
                r == launch_and_record_preempts(env, 3, "run1b_selfcheck", run1b_opts)
                status == log_diff_preemption_replay(r.env, loc.min_log_path,
                                                     log_path("run1b_selfcheck", 0))
                verdict == selfcheck_verdict(
                               r.is_a_match, status,
                               preempt_files_equal(r.env, loc.min_preempts_path,
                                                   preempts_path("run1b_selfcheck", 0)))
            IN  IF run1b.err
                THEN /\ pc' = main_after_phase3(TRUE)
                     /\ loc' = [loc EXCEPT !.error = "no-sequentialize-threads"]
                     /\ UNCHANGED env
                ELSE /\ env' = r.env
                     /\ pc' = main_after_phase3(verdict # "")
                     /\ loc' = [loc EXCEPT !.error = verdict]
       ELSE pc' = main_after_phase3(FALSE) /\ UNCHANGED <<env, loc>>

(***************************************************************************)
(* main between phase 3 and phase 4                                        *)
(***************************************************************************)
save_final_target_sched_events(e, phase, final_preempts_path, sched_events_path) ==
    LET r == launch_from_preempts_to_sched(e, phase, "verify_target_endpoint",
                                           final_preempts_path, Some(sched_events_path))
    IN  [panic |-> r.err, err |-> ~r.err /\ ~r.is_a_match, env |-> r.env]

\* The result of the replay is printed, never returned.
save_final_baseline_sched_events(e, phase, final_preempts, sched_events_path) ==
    LET r == launch_from_preempts_to_sched(
                 write_to_disk(e, final_preempts, final_pass_preempts_path),
                 phase, "verify_baseline_endpoint",
                 final_pass_preempts_path, Some(sched_events_path))
    IN  [panic |-> r.err, err |-> FALSE, env |-> r.env]

SaveTarget ==
    /\ pc = "target"
    /\ UNCHANGED <<opts, rt, started>>
    /\ LET normalized_preempts == preemptions_only(normalize(loc.min_preempts))
           r == save_final_target_sched_events(
                    write_to_disk(env, normalized_preempts, normalized_preempts_path),
                    0, normalized_preempts_path, target_sched_events_path)
       IN  /\ env' = r.env
           /\ IF r.panic THEN Halt("panic", "unwrap")
              ELSE IF r.err
              THEN Halt("error", "Final preemption record still does not match target criteria")
              ELSE /\ pc' = "phase4"
                   /\ loc' = [loc EXCEPT !.normalized_preempts = normalized_preempts]

(***************************************************************************)
(* Phase 4: phase4_choose_baseline_sched_events                            *)
(***************************************************************************)
Phase4Return_normalized(l, pr, sched_path) ==
    [l EXCEPT !.final_pr = l.normalized_preempts, !.non_matching_sched_events_path = sched_path]
Phase4Return(l, pr, sched_path) ==
    [l EXCEPT !.final_pr = pr, !.non_matching_sched_events_path = sched_path]

\* The branch phase 4 takes
phase4_branch_minimize_first(o) ==
    IF o.minimize THEN "knockout"
    ELSE IF IsSome(o.run2_seed) THEN "seed"
    ELSE IF IsSome(o.run2_preemptions) THEN "preemptions"
    ELSE "strip"

phase4_branch(o) ==
    IF IsSome(o.run2_seed) THEN "seed"
    ELSE IF IsSome(o.run2_preemptions) THEN "preemptions"
    ELSE IF o.minimize THEN "knockout"
    ELSE "strip"

Phase4 ==
    /\ pc = "phase4"
    /\ started' = Append(started, 4)
    /\ UNCHANGED <<opts, rt>>
    /\ LET run2 == get_run2_runopts(opts)
           matching_pr == loc.normalized_preempts
           ret == Phase4Return(loc, matching_pr, run2_sched_path)
       IN  IF run2.err
           THEN Halt("error", "no-sequentialize-threads") /\ UNCHANGED env
           ELSE IF phase4_branch(opts) = "seed"
           THEN LET r == launch_and_record_preempts(env, 4, "run2_baseline", run2.ro)
                IN  env' = r.env /\ pc' = "endpoint" /\ loc' = ret
           ELSE IF phase4_branch(opts) = "preemptions"
           THEN LET path == opts.run2_preemptions[1]
                    r == save_final_baseline_sched_events(env, 4, load_all(env, path), path)
                IN  /\ env' = r.env
                    /\ IF r.panic THEN Halt("panic", "unwrap")
                       ELSE pc' = "endpoint" /\ loc' = ret
           ELSE IF phase4_branch(opts) = "knockout"
           THEN /\ pc' = "knockout"
                /\ loc' = [loc EXCEPT !.pr = matching_pr, !.knockouts = 0]
                /\ UNCHANGED env
           ELSE LET r == save_final_baseline_sched_events(
                             env, 4, strip_contents(matching_pr), run2_sched_path)
                IN  /\ env' = r.env
                    /\ IF r.panic THEN Halt("panic", "unwrap")
                       ELSE pc' = "endpoint" /\ loc' = ret

nearby_path == preempts_path("baseline_nearby_non_matching", 0)

save_nearby_replays_input(e, matching_preempts, sched_events_path) ==
    LET non_matching_preempts == with_latest_preempt_removed(matching_preempts)
        r == launch_from_preempts_to_sched(
                 write_to_disk(e, matching_preempts, nearby_path),
                 4, "baseline_nearby_non_matching", nearby_path, Some(sched_events_path))
    IN  IF ~validate(non_matching_preempts)
        THEN [kind |-> "err", env |-> e, rec |-> non_matching_preempts]
        ELSE [kind |-> IF r.err THEN "panic" ELSE IF r.is_a_match THEN "some" ELSE "none",
              env |-> r.env, rec |-> non_matching_preempts]

\* kind: "err" (validate failed), "panic", "some" (still matches), "none"
save_nearby_non_matching_sched_events(e, matching_preempts, sched_events_path) ==
    LET non_matching_preempts == with_latest_preempt_removed(matching_preempts)
        r == launch_from_preempts_to_sched(
                 write_to_disk(e, non_matching_preempts, nearby_path),
                 4, "baseline_nearby_non_matching", nearby_path, Some(sched_events_path))
    IN  IF ~validate(non_matching_preempts)
        THEN [kind |-> "err", env |-> e, rec |-> non_matching_preempts]
        ELSE [kind |-> IF r.err THEN "panic" ELSE IF r.is_a_match THEN "some" ELSE "none",
              env |-> r.env, rec |-> non_matching_preempts]

\* What the loop returns when the knocked-out record no longer matches: the
\* record it knocked the preemption out of.
knockout_returned_truncated(pr, non_matching_preempts) == non_matching_preempts
knockout_returned(pr, non_matching_preempts) == pr

\* One iteration of the loop of the minimize branch
Knockout ==
    /\ pc = "knockout"
    /\ loc.knockouts < MaxKnockouts
    /\ UNCHANGED <<opts, rt, started>>
    /\ LET r == save_nearby_non_matching_sched_events(env, loc.pr, run2_sched_path)
           l == [loc EXCEPT !.knockouts = loc.knockouts + 1]
       IN  /\ env' = r.env
           /\ CASE r.kind = "err" -> Halt("error", "corrupt nearby non-matching preemption record")
                [] r.kind = "panic" -> Halt("panic", "unwrap")
                [] r.kind = "some" -> pc' = "knockout" /\ loc' = [l EXCEPT !.pr = r.rec]
                [] OTHER ->
                     /\ pc' = "endpoint"
                     /\ loc' = Phase4Return(l, knockout_returned(loc.pr, r.rec), run2_sched_path)

(***************************************************************************)
(* main between phase 4 and phase 5                                        *)
(***************************************************************************)
Endpoint ==
    /\ pc = "endpoint"
    /\ UNCHANGED <<opts, rt, started>>
    /\ LET r == save_final_baseline_sched_events(env, 0, loc.final_pr, target_sched_events_path)
       IN  /\ env' = r.env
           /\ IF r.panic THEN Halt("panic", "unwrap")
              ELSE IF ~Exists(r.env, loc.non_matching_sched_events_path)
              THEN Halt("panic", "read_trace: no such file")
              ELSE /\ pc' = "phase5"
                   /\ loc' = [loc EXCEPT
                        !.target = read_trace(r.env, target_sched_events_path),
                        !.baseline = read_trace(r.env, loc.non_matching_sched_events_path)]

(***************************************************************************)
(* Phase 5: phase5_bisect_traces and search_for_critical_schedule          *)
(***************************************************************************)
Range(s) == {s[k] : k \in DOMAIN s}

RECURSIVE Without(_, _)
Without(s, S) ==
    IF s = <<>> THEN <<>>
    ELSE IF Head(s) \in S THEN Without(Tail(s), S)
         ELSE <<Head(s)>> \o Without(Tail(s), S)

\* The hybrid with the two schedules exchanged
Hybrid_failing_first(failing, passing, mid) ==
    SubSeq(failing, 1, mid) \o Without(passing, Range(SubSeq(failing, 1, mid)))

\* The hybrid probed at `mid`: the first `mid` events as the passing schedule
\* orders them, the remaining events as the failing schedule orders them.
Hybrid(failing, passing, mid) ==
    SubSeq(passing, 1, mid) \o Without(failing, Range(SubSeq(passing, 1, mid)))

\* The probe point: the lower of the two middle indices
Mid_at_lo(lo, hi) == lo
Mid(lo, hi) == (lo + hi) \div 2

bisect_path(i) == WsPath("bisect_round", i, SCHED_EXT)

\* What the closure answers for a run that matched: (!is_match, sched)
test_fn_passed_unnegated(is_match) == is_match
test_fn_passed(is_match) == ~is_match

\* The closure without the replay option set on the run
test_fn_unreplayed(e, i, base_opts, sched) ==
    LET sched_path == bisect_path(i)
        e1 == write_to_disk(e, from_sched_events(sched), sched_path)
        r == launch_config(e1, 5, "bisect_round", i, base_opts)
    IN  [env |-> r.env, passed |-> test_fn_passed(r.is_a_match), actual |-> sched]

\* The closure test_fn, called with the probe counter already incremented
test_fn(e, i, base_opts, sched) ==
    LET sched_path == bisect_path(i)
        e1 == write_to_disk(e, from_sched_events(sched), sched_path)
        runopts == [base_opts EXCEPT !.replay_schedule_from = Some(sched_path)]
        r == launch_config(e1, 5, "bisect_round", i, runopts)
    IN  [env |-> r.env, passed |-> test_fn_passed(r.is_a_match), actual |-> sched]

Phase5 ==
    /\ pc = "phase5"
    /\ started' = Append(started, 5)
    /\ UNCHANGED <<opts, rt, env>>
    /\ IF get_base_runopts(opts).err
       THEN Halt("error", "no-sequentialize-threads")
       ELSE /\ pc' = "bisect"
            /\ loc' = [loc EXCEPT !.i = 0,
                                  !.lo = 0,
                                  !.hi = Len(loc.baseline),
                                  !.failing_schedule = loc.target,
                                  !.passing_schedule = loc.baseline]

\* The probe counter: i += 1 at the head of the closure
next_probe_same(i) == i
next_probe(i) == i + 1

\* One probe of search_for_critical_schedule
BisectProbe ==
    /\ pc = "bisect"
    /\ loc.hi - loc.lo > 1
    /\ UNCHANGED <<opts, rt, started>>
    /\ LET mid == Mid(loc.lo, loc.hi)
           h == Hybrid(loc.failing_schedule, loc.passing_schedule, mid)
           t == test_fn(env, next_probe(loc.i), get_base_runopts(opts).ro, h)
       IN  /\ env' = t.env
           /\ pc' = "bisect"
           /\ loc' = IF t.passed
                     THEN [loc EXCEPT !.i = next_probe(loc.i), !.hi = mid,
                                      !.passing_schedule = t.actual]
                     ELSE [loc EXCEPT !.i = next_probe(loc.i), !.lo = mid,
                                      !.failing_schedule = t.actual]

\* search_for_critical_schedule returns, and phase 5 with it
Phase5Return ==
    /\ pc = "bisect"
    /\ loc.hi - loc.lo <= 1
    /\ UNCHANGED <<opts, rt, env, started>>
    /\ pc' = "phase6"
    /\ loc' = [loc EXCEPT !.critical_event_index = loc.lo + 1]

(***************************************************************************)
(* Phase 6: phase6_record_outputs, and the end of main                     *)
(***************************************************************************)
final_failing_path == WsPath("final_target_for_stacktraces", 0, SCHED_EXT)
final_passing_path == WsPath("final_baseline", 0, SCHED_EXT)
stack1_path == WsPath("final_target_for_stacktraces", 0, "stack1")
stack2_path == WsPath("final_target_for_stacktraces", 0, "stack2")
report_path == UserPath("report")

launch_for_stacktraces(e, phase, runname, schedule_path, critical_event_index) ==
    LET b == get_base_runopts(opts)
        ro == [b.ro EXCEPT
                 !.replay_schedule_from = Some(schedule_path),
                 !.stacktrace_event =
                     <<[event |-> critical_event_index - 1, path |-> stack1_path],
                       [event |-> critical_event_index, path |-> stack2_path]>>]
    IN  IF b.err THEN NotLaunched(e) ELSE launch_config(e, phase, runname, 0, ro)

\* The status main returns after phase 6
main_exit_default(o) == Some(0)
main_exit(o) == IF IsSome(o.success_exit_code) THEN o.success_exit_code ELSE Some(0)

Phase6 ==
    /\ pc = "phase6"
    /\ started' = Append(started, 6)
    /\ UNCHANGED <<opts, rt>>
    /\ LET e1 == write_to_disk(env, from_sched_events(loc.failing_schedule), final_failing_path)
           e2 == write_to_disk(e1, from_sched_events(loc.passing_schedule), final_passing_path)
           r == launch_for_stacktraces(e2, 6, "final_target_for_stacktraces",
                                       final_failing_path, loc.critical_event_index)
           report == [header |-> <<loc.critical_event_index - 1, loc.critical_event_index>>,
                      stack1 |-> stack1_path, stack2 |-> stack2_path]
       IN  IF r.err
           THEN Halt("error", "no-sequentialize-threads") /\ env' = r.env
           ELSE IF ~Exists(r.env, stack1_path) \/ ~Exists(r.env, stack2_path)
           THEN Halt("panic", "read_to_string") /\ env' = r.env
           ELSE IF ~r.is_a_match
           THEN Halt("error", "Final run did NOT match the criteria as expected!")
                /\ env' = r.env
           ELSE /\ env' = IF IsSome(opts.report_file)
                          THEN Write(r.env, opts.report_file[1], StreamFile("analyzer"))
                          ELSE r.env
                /\ pc' = "done"
                /\ loc' = [loc EXCEPT
                     !.report = Some(report),
                     !.exit = main_exit(opts)]

(***************************************************************************)
(* Specifications                                                          *)
(***************************************************************************)
Next ==
    \/ Phase1
    \/ SearchRound
    \/ Phase2
    \/ Phase3
    \/ SaveTarget
    \/ Phase4
    \/ Knockout
    \/ Endpoint
    \/ Phase5
    \/ BisectProbe
    \/ Phase5Return
    \/ Phase6

Spec == Init /\ [][Next]_vars

(***************************************************************************)
(* Phase 5 on its own: phase5_bisect_traces applied to every pair of       *)
(* schedules over BisectLen events, the target matching and the baseline   *)
(* not, under every oracle of BisectRaces.                                 *)
(***************************************************************************)
Perms(n) == {s \in [1..n -> 1..n] : \A i, j \in 1..n : i # j => s[i] # s[j]}

AdjPairs(k) == {<<k, k + 1>>, <<k + 1, k>>}

\* One ordered pair of events, or two such pairs over disjoint neighbours
\* (an oracle that need not change only once along the hybrids).
BisectRaces ==
    {{r} : r \in {q \in (1..BisectLen) \X (1..BisectLen) : q[1] # q[2]}}
    \cup UNION {{{r, q} : r \in AdjPairs(k), q \in AdjPairs(k + 2)} :
                   k \in 1..(BisectLen - 3)}

InitB ==
    /\ pc = "phase5"
    /\ started = <<1, 2, 3, 4>>
    /\ env = EmptyEnv
    /\ opts = MkOpts(FALSE, [NoFilters EXCEPT !.target_exit_code = ExitNonZero],
                     NoneOpt, NoneOpt, NoneOpt, NoneOpt, FALSE, FALSE, FALSE, NoneOpt)
    /\ \E race \in BisectRaces :
       \E target \in Perms(BisectLen) :
       \E baseline \in Perms(BisectLen) :
        /\ Fails(race, target)
        /\ ~Fails(race, baseline)
        /\ rt = [race |-> race, quirk |-> "none"]
        /\ loc = [InitLoc EXCEPT !.target = target, !.baseline = baseline]

NextB ==
    \/ Phase5
    \/ BisectProbe
    \/ Phase5Return

SpecB == InitB /\ [][NextB]_vars

(***************************************************************************)
(* Phase 6 on its own: phase6_record_outputs applied to critical schedules *)
(* over BisectLen events with every critical_event_index from 1 to the     *)
(* length of the schedule, whether or not the failing schedule matches,    *)
(* followed by the end of main.                                            *)
(***************************************************************************)
InitP6 ==
    /\ pc = "phase6"
    /\ started = <<1, 2, 3, 4, 5>>
    /\ env = EmptyEnv
    /\ \E rf \in {NoneOpt, Some(report_path)} :
       \E sec \in {NoneOpt, Some(3)} :
         opts = WithReport(
                    MkOpts(FALSE, [NoFilters EXCEPT !.target_exit_code = ExitNonZero],
                           NoneOpt, NoneOpt, NoneOpt, NoneOpt, FALSE, FALSE, FALSE, NoneOpt),
                    rf, sec)
    /\ \E race \in {{r} : r \in {q \in (1..BisectLen) \X (1..BisectLen) : q[1] # q[2]}} :
       \E failing \in Perms(BisectLen) :
       \E passing \in {failing, Reverse(failing)} :
       \E ci \in 1..BisectLen :
        /\ rt = [race |-> race, quirk |-> "none"]
        /\ loc = [InitLoc EXCEPT !.failing_schedule = failing,
                                 !.passing_schedule = passing,
                                 !.critical_event_index = ci]

NextP6 == Phase6

SpecP6 == InitP6 /\ [][NextP6]_vars

(***************************************************************************)
(* output_matches on its own: every criterion over two patterns and four   *)
(* exit-code constraints, verbose or not, applied to every output over two *)
(* tokens per stream and three exit statuses.                              *)
(***************************************************************************)
Tokens == {"started", "DEADLOCK"}
Patterns == {NoneOpt} \cup {Some(t) : t \in Tokens}
ExitConstraints == {ExitAny, ExitNonZero, ExitExact(0), ExitExact(139)}
Outputs == [stdout : SUBSET Tokens, stderr : SUBSET Tokens, status : {0, 1, 139}]

InitOM ==
    /\ pc = "main"
    /\ started = <<>>
    /\ env = EmptyEnv
    /\ loc = InitLoc
    /\ rt = [race |-> {<<2, 1>>}, quirk |-> "none"]
    /\ \E so \in Patterns : \E se \in Patterns : \E ec \in ExitConstraints :
       \E verbose \in BOOLEAN :
         opts = [MkOpts(FALSE,
                        [target_stdout |-> so, target_stderr |-> se, target_exit_code |-> ec],
                        NoneOpt, NoneOpt, NoneOpt, NoneOpt, FALSE, FALSE, FALSE, NoneOpt)
                 EXCEPT !.verbose = verbose]

\* The end of launch_config for a run whose Output is `out`
Judge ==
    /\ env.runs = <<>>
    /\ UNCHANGED <<opts, rt, pc, loc, started>>
    /\ \E out \in Outputs :
         env' = [env EXCEPT !.runs =
                    <<[name |-> "judged", idx |-> 0, ro |-> DefaultRunOpts(FALSE),
                       phase |-> 0, out |-> out,
                       is_a_match |-> output_matches(opts, out)]>>]

NextOM == Judge

SpecOM == InitOM /\ [][NextOM]_vars

(***************************************************************************)
(* Properties                                                              *)
(***************************************************************************)
Failed == {"error", "panic"}

\* main has called phase5_bisect_traces
ReachedPhase5 == pc = "phase5" \/ 5 \in Range(started)

RunsNamed(name) == SelectSeq(env.runs, LAMBDA r : r.name = name)
RunsOfPhase(k) == SelectSeq(env.runs, LAMBDA r : r.phase = k)

\* C1: whenever main reaches phase 5, the file first_matching.events that it
\* reads as the bisection target was last written by a replay whose output
\* matched the criterion, and the target handed to phase 5 is the schedule
\* of that file and matches.
C1_TargetRecordedByMatchingReplay ==
    ReachedPhase5 =>
        /\ Exists(env, target_sched_events_path)
        /\ env.files[target_sched_events_path].m
        /\ env.files[target_sched_events_path].by \in
               {"verify_target_endpoint", "verify_baseline_endpoint"}
        /\ loc.target = read_trace(env, target_sched_events_path)
        /\ Matches(loc.target)

\* Phase 5 reached through the knockout loop after more than one knockout
C1_Witness ==
    /\ pc = "phase5"
    /\ opts.minimize
    /\ loc.knockouts >= 2
    /\ loc.final_pr # loc.normalized_preempts
    /\ env.files[target_sched_events_path].by = "verify_baseline_endpoint"

\* C2: whenever main reaches phase 5, the file it reads as the bisection
\* baseline was recorded by a run whose output did not match the criterion
\* (a matching baseline run stops main before phase 5).
C2_BaselineRecordedByNonMatchingRun ==
    ReachedPhase5 =>
        /\ ~env.files[loc.non_matching_sched_events_path].m
        /\ ~Matches(loc.baseline)

DiffPositions(f, p) == {j \in DOMAIN f : f[j] # p[j]}

\* The oracle of the bisection scenario: the run matches iff event a runs
\* before event b, the two being neighbours in the target schedule.
ScenarioOracle(a, b) ==
    /\ rt.race = {<<a, b>>}
    /\ opts.target_exit_code = ExitNonZero
    /\ Pos(loc.target, b) = Pos(loc.target, a) + 1

C3_General ==
    LET F == loc.failing_schedule
        P == loc.passing_schedule
        ci == loc.critical_event_index
    IN  /\ ci >= 1
        /\ \A j \in 1..(ci - 1) : F[j] = P[j]
        /\ Matches(F)
        /\ ~Matches(P)

\* Indices in the scenario's statement count from 0, positions here from 1.
C3_Expected(a, b) ==
    /\ loc.critical_event_index = Pos(loc.target, b) - 1
    /\ DiffPositions(loc.failing_schedule, loc.passing_schedule) =
           {Pos(loc.target, a), Pos(loc.target, b)}

PhaseOrder == <<1, 2, 3, 4, 5, 6>>

C4_Inv ==
    /\ Len(started) <= 6
    /\ started = SubSeq(PhaseOrder, 1, Len(started))
    /\ \A k \in DOMAIN env.runs : env.runs[k].phase \in Range(started) \cup {0}
    /\ loc.error # "" => pc \in Failed

C4_Step ==
    /\ started' # started =>
         /\ started' = Append(started, Len(started) + 1)
         /\ loc.error = ""
         /\ pc \notin Failed
    /\ (loc.error # "" \/ pc \in Failed) =>
         /\ env'.runs = env.runs
         /\ started' = started

\* C4: the phases start in the order 1, 2, 3, 4, 5, 6, each at most once, a
\* phase starts only when no earlier phase has returned an error, every run
\* belongs to main or to a phase that has started, and once a phase has
\* returned an error main has stopped: no run is launched and no phase is
\* started afterwards.
C4_PhasesInOrder == [] C4_Inv /\ [][C4_Step]_vars

\* The self-check has returned an error after its replay: three phases have
\* started and the runs so far are those of phases 1 to 3.
C4_Witness ==
    /\ pc = "error"
    /\ started = <<1, 2, 3>>
    /\ RunsOfPhase(3) # <<>>
    /\ RunsOfPhase(0) = <<>>

\* C5: no path is written a second time.
C5_EveryPathWrittenOnce == env.rewritten = {}

\* C6: when phase 4 has returned the baseline schedule path p, a run of
\* phase 4 had record_preemptions_to = p and the file at p exists.
C6_BaselinePathRecordedByPhase4 ==
    pc = "endpoint" =>
        /\ \E k \in DOMAIN env.runs :
             /\ env.runs[k].phase = 4
             /\ env.runs[k].ro.record_preemptions_to =
                    Some(loc.non_matching_sched_events_path)
        /\ Exists(env, loc.non_matching_sched_events_path)

RECURSIVE Truncated(_, _)
\* j applications of with_latest_preempt_removed
Truncated(r, j) == IF j = 0 THEN r ELSE Truncated(with_latest_preempt_removed(r), j - 1)

RecordMatches(r) == Matches(SchedOfPreempts(r.pre))

\* Phase 4 has returned from its knockout loop
KnockoutReturned ==
    /\ pc = "endpoint"
    /\ opts.minimize
    /\ ~IsSome(opts.run2_seed)
    /\ ~IsSome(opts.run2_preemptions)

\* The file at the returned path holds the schedule recorded by the replay
\* of record r, which did not match.
BaselineRecordedFrom(r) ==
    LET f == env.files[loc.non_matching_sched_events_path]
    IN  /\ loc.non_matching_sched_events_path = run2_sched_path
        /\ f.by = "baseline_nearby_non_matching"
        /\ ~f.m
        /\ f.rec.sched = SchedOfPreempts(r.pre)
        /\ ~RecordMatches(r)

\* The scenario: two preemptions, and without the later one the replay does
\* not match.
KnockoutScenario ==
    /\ Cardinality(loc.normalized_preempts.pre) = 2
    /\ ~RecordMatches(Truncated(loc.normalized_preempts, 1))

SearchRuns == RunsNamed("search_round")

\* C8: the search runs are rounds 0, 1, 2, ... in order, each recording to its
\* own preemption file; while the search goes on every round so far did not
\* match; once it has returned, round k = loc.round matched and no other did,
\* k+1 search runs were launched, and the destination file is a copy of round
\* k's preemption file.
C8_SearchReturnsAtFirstMatch ==
    /\ \A k \in DOMAIN SearchRuns :
         /\ SearchRuns[k].idx = k - 1
         /\ SearchRuns[k].ro.record_preemptions_to =
                Some(preempts_path("search_round", k - 1))
    /\ pc = "search" =>
         /\ Len(SearchRuns) = loc.round
         /\ \A k \in DOMAIN SearchRuns : ~SearchRuns[k].is_a_match
    /\ (pc # "search" /\ SearchRuns # <<>>) =>
         /\ Len(SearchRuns) = loc.round + 1
         /\ \A k \in DOMAIN SearchRuns :
              SearchRuns[k].is_a_match <=> k = Len(SearchRuns)
         /\ env.files[preempts_path("phase1_target", 0)] =
                env.files[preempts_path("search_round", loc.round)]
         /\ env.files[preempts_path("phase1_target", 0)].by = "search_round"
         /\ env.files[preempts_path("phase1_target", 0)].m

\* The search returned at its third round
C8_Witness ==
    /\ pc = "phase2"
    /\ Len(SearchRuns) >= 3
    /\ loc.round = Len(SearchRuns) - 1

\* The three conditions of the self-check, on the replay run1b_selfcheck
SelfcheckHolds ==
    /\ RunsNamed("run1b_selfcheck")[1].is_a_match
    /\ log_diff_preemption_replay(env, loc.min_log_path, log_path("run1b_selfcheck", 0))
    /\ preempt_files_equal(env, loc.min_preempts_path, preempts_path("run1b_selfcheck", 0))

\* C9: with selfcheck enabled, once phase 3 has returned it has launched its
\* replay exactly once, and unless the replay matched, its log showed no
\* difference and it re-recorded the preemptions it replayed, phase 3 returned
\* an error: main stopped with three phases started and no later run.
C9_SelfcheckGate ==
    (opts.selfcheck /\ 3 \in Range(started)) =>
        /\ Len(RunsNamed("run1b_selfcheck")) = 1
        /\ RunsNamed("run1b_selfcheck")[1].ro.replay_preemptions_from =
               Some(loc.min_preempts_path)
        /\ ~SelfcheckHolds =>
             /\ pc = "error"
             /\ loc.error # ""
             /\ started = <<1, 2, 3>>
             /\ env.runs[Len(env.runs)].name = "run1b_selfcheck"

\* The replay matched and logged the same, but re-recorded other preemptions
C9_Witness ==
    /\ opts.selfcheck
    /\ pc = "error"
    /\ loc.error = "no fixed point"
    /\ RunsNamed("run1b_selfcheck")[1].is_a_match

\* C10: every run launched has sequentialize_threads enabled, and when the
\* user's run arguments disable it main stops in phase 1 with an error and
\* without a run.
C10_NeverRunsUnsequentialized ==
    /\ \A k \in DOMAIN env.runs :
         /\ env.runs[k].ro.sequentialize_threads
         /\ ~env.runs[k].ro.no_sequentialize_threads
    /\ opts.run_args.no_sequentialize_threads =>
         /\ env.runs = <<>>
         /\ pc \in {"main", "error"}
         /\ Len(started) <= 1

C10_Witness ==
    /\ opts.run_args.no_sequentialize_threads
    /\ pc = "error"
    /\ started = <<1>>
    /\ env.runs = <<>>

\* The one run of phase 6, once phase 6 has run
Rerun == RunsOfPhase(6)[1]

\* Phase 6 replayed the failing schedule with the two stack traces requested
C11_RerunsFailingSchedule ==
    /\ Len(RunsOfPhase(6)) = 1
    /\ Rerun.name = "final_target_for_stacktraces"
    /\ Rerun.ro.replay_schedule_from = Some(final_failing_path)
    /\ read_trace(env, final_failing_path) = loc.failing_schedule
    /\ Rerun.ro.stacktrace_event =
           <<[event |-> loc.critical_event_index - 1, path |-> stack1_path],
             [event |-> loc.critical_event_index, path |-> stack2_path]>>

C12_SuccessOnlyAfterReport ==
    /\ IsSome(loc.exit) <=> pc = "done"
    /\ pc \in Failed => ~IsSome(loc.exit)
    /\ pc = "done" =>
         /\ started = PhaseOrder
         /\ loc.error = ""
         /\ IsSome(loc.report)
         /\ Rerun.is_a_match
         /\ loc.exit = IF IsSome(opts.success_exit_code)
                       THEN opts.success_exit_code ELSE Some(0)
         /\ IsSome(opts.report_file) => opts.report_file[1] \in env.written

\* main is done with the status the user asked for
C12_Witness ==
    /\ pc = "done"
    /\ opts.success_exit_code = Some(3)
    /\ loc.exit = Some(3)
    /\ report_path \in env.written

\* Every constraint that is present holds of the output
AllPresentHold(o, out) ==
    /\ IsSome(o.target_stdout) => o.target_stdout[1] \in out.stdout
    /\ IsSome(o.target_stderr) => o.target_stderr[1] \in out.stderr
    /\ exit_is_match(o.target_exit_code, out.status)

\* C13: the answer of output_matches for an output is true iff every present
\* constraint holds of it; it is true for every output when no constraint is
\* present; and it is the answer the same criterion gives with the verbose
\* flag flipped.
C13_OutputMatches ==
    \A k \in DOMAIN env.runs :
        LET r == env.runs[k]
        IN  /\ r.is_a_match <=> AllPresentHold(opts, r.out)
            /\ ~has_filters(opts) => r.is_a_match
            /\ output_matches([opts EXCEPT !.verbose = ~opts.verbose], r.out) = r.is_a_match

\* A verbose judgement under all three constraints of an output that
\* satisfies them
C13_Witness ==
    /\ env.runs # <<>>
    /\ opts.verbose
    /\ IsSome(opts.target_stderr)
    /\ IsSome(opts.target_stdout)
    /\ opts.target_exit_code = ExitExact(139)
    /\ env.runs[1].is_a_match

\* Phase 1 has returned Ok
Phase1Returned == pc = "phase2" \/ 2 \in Range(started)

\* C14: after the first run of a phase 1 without run1_preemptions: if it
\* matched no search run exists; if it did not match and search is enabled the
\* search is running or has run; if it did not match and search is disabled
\* phase 1 returned an error and the first run is the only run.  Once phase 1
\* has returned Ok, the file at the returned preemption path was recorded by a
\* run that matched.
C14_Phase1Branches ==
    (~IsSome(opts.run1_preemptions) /\ RunsNamed("phase1_target") # <<>>) =>
        LET first == RunsNamed("phase1_target")[1]
        IN  /\ Len(RunsNamed("phase1_target")) = 1
            /\ env.runs[1] = first
            /\ first.is_a_match => SearchRuns = <<>>
            /\ (~first.is_a_match /\ opts.search) =>
                 /\ pc = "search" \/ SearchRuns # <<>>
                 /\ Len(env.runs) >= 2 => env.runs[2].name = "search_round"
            /\ (~first.is_a_match /\ ~opts.search) =>
                 /\ pc = "error"
                 /\ started = <<1>>
                 /\ env.runs = <<first>>
            /\ Phase1Returned =>
                 /\ loc.preempts_path = preempts_path("phase1_target", 0)
                 /\ env.files[loc.preempts_path].m
                 /\ env.files[loc.preempts_path].by \in {"phase1_target", "search_round"}
                 /\ first.is_a_match <=> env.files[loc.preempts_path].by = "phase1_target"

\* The first run matched although search was enabled, and phase 1 returned
C14_Witness ==
    /\ pc = "phase2"
    /\ opts.search
    /\ ~IsSome(opts.run1_preemptions)
    /\ RunsNamed("phase1_target")[1].is_a_match
    /\ SearchRuns = <<>>

\* Phase 4 has just returned, Ok or not
Phase4Over ==
    \/ pc = "endpoint"
    \/ pc \in Failed /\ started = <<1, 2, 3, 4>>

\* The preemption replays of phase 4
BaselineReplays ==
    SelectSeq(RunsOfPhase(4), LAMBDA r : IsSome(r.ro.replay_preemptions_from))

\* C15: when phase 4 is over, every record it replayed passes validate(); a
\* replay of a record that fails validate() was never launched.
C15_BaselineValidatedBeforeReplay ==
    Phase4Over =>
        \A k \in DOMAIN BaselineReplays :
            validate(load_all(env, BaselineReplays[k].ro.replay_preemptions_from[1]))

\* The knockout branch alone: its record is checked, and a record that fails
\* validate() ends phase 4 with an error and without a replay.
C15_KnockoutBranchValidates ==
    (Phase4Over /\ opts.minimize
        /\ ~IsSome(opts.run2_seed) /\ ~IsSome(opts.run2_preemptions)) =>
        /\ \A k \in DOMAIN BaselineReplays :
             validate(load_all(env, BaselineReplays[k].ro.replay_preemptions_from[1]))
        /\ ~validate(loc.normalized_preempts) =>
             /\ pc = "error"
             /\ RunsOfPhase(4) = <<>>

\* The self-check replay matched and re-recorded the preemptions it replayed,
\* but its log differs from the target run's log outside the ignored lines.
LogNoiseOnly ==
    /\ opts.selfcheck
    /\ RunsNamed("run1b_selfcheck") # <<>>
    /\ RunsNamed("run1b_selfcheck")[1].is_a_match
    /\ ~log_diff_preemption_replay(env, loc.min_log_path, log_path("run1b_selfcheck", 0))
    /\ preempt_files_equal(env, loc.min_preempts_path, preempts_path("run1b_selfcheck", 0))

\* C16 (amended): with selfcheck enabled, when the replay matches and
\* re-records identical preemptions but its log differs from the target run's
\* log outside the ignored lines, phase 3 aborts with the "Log differences
\* found" diagnostic and main stops there.
C16_LogNoiseAborts ==
    LogNoiseOnly =>
        /\ pc = "error"
        /\ started = <<1, 2, 3>>
        /\ loc.error = "Log differences found"

\* The runtime logged a line on replay that the recording run did not log
C16_Witness ==
    /\ LogNoiseOnly
    /\ rt.quirk = "noise"
    /\ env.files[loc.min_log_path].log.sched =
           env.files[log_path("run1b_selfcheck", 0)].log.sched
    /\ pc = "error"

\* C16 as stated: in that case phase 3 aborts with the "no fixed point"
\* diagnostic.
C16_AsStated ==
    LogNoiseOnly =>
        /\ pc = "error"
        /\ started = <<1, 2, 3>>
        /\ loc.error = "no fixed point"

\* C17: when run2_seed is provided, phase 4 launches exactly one run, seeded
\* with run2_seed and recording preemptions to the baseline path, returns
\* whether or not that run matched (a failure, if any, comes after a later
\* run of main), and launches no knockout or stripped-record replay.
C17_Run2SeedLaunchesOnce ==
    (IsSome(opts.run2_seed) /\ 4 \in Range(started)) =>
        /\ Len(RunsOfPhase(4)) = 1
        /\ RunsOfPhase(4)[1].name = "run2_baseline"
        /\ RunsOfPhase(4)[1].ro.seed = opts.run2_seed
        /\ RunsOfPhase(4)[1].ro.record_preemptions
        /\ RunsOfPhase(4)[1].ro.record_preemptions_to = Some(run2_sched_path)
        /\ RunsOfPhase(4)[1].ro.replay_preemptions_from = NoneOpt
        /\ pc \in Failed => env.runs[Len(env.runs)].phase # 4

\* The seeded baseline run matched the criteria, under --minimize, and phase 4
\* returned it all the same
C17_Witness ==
    /\ IsSome(opts.run2_seed)
    /\ opts.minimize
    /\ has_filters(opts)
    /\ started = <<1, 2, 3, 4>>
    /\ pc = "endpoint"
    /\ RunsOfPhase(4)[1].is_a_match

\* The nondeterminism drivers set on a run's options
Drivers(ro) ==
    (IF IsSome(ro.seed) \/ IsSome(ro.sched_seed) THEN {"seed"} ELSE {})
    \cup (IF IsSome(ro.replay_preemptions_from) THEN {"preemptions"} ELSE {})
    \cup (IF IsSome(ro.replay_schedule_from) THEN {"schedule"} ELSE {})

\* C18: every run the analyzer launches, in any phase, has at most one of the
\* three nondeterminism drivers set on its options: an explicit seed or
\* sched_seed, replay_preemptions_from, or replay_schedule_from (the run
\* arguments set none of them).
C18_AtMostOneDriver ==
    \A k \in DOMAIN env.runs : Cardinality(Drivers(env.runs[k].ro)) <= 1

\* Every run but the self-check replay has at most one driver set
C18_AllButSelfcheck ==
    \A k \in DOMAIN env.runs :
        env.runs[k].name # "run1b_selfcheck" => Cardinality(Drivers(env.runs[k].ro)) <= 1

\* C19: every run launched by the searcher has chaos mode enabled,
\* record_preemptions = true, the round's generated sched_seed, and
\* record_preemptions_to set to that round's own preemption path, whatever the
\* run arguments contain.
C19_SearchRunsInChaosMode ==
    \A k \in DOMAIN SearchRuns :
        /\ SearchRuns[k].ro.chaos
        /\ SearchRuns[k].ro.record_preemptions
        /\ IsSome(SearchRuns[k].ro.sched_seed)
        /\ SearchRuns[k].ro.record_preemptions_to =
               Some(preempts_path("search_round", SearchRuns[k].idx))

\* What launch_search does set on every run of the searcher
C19_SearchRunsRecord ==
    \A k \in DOMAIN SearchRuns :
        /\ SearchRuns[k].ro.chaos = opts.run_args.chaos
        /\ SearchRuns[k].ro.record_preemptions
        /\ IsSome(SearchRuns[k].ro.sched_seed)
        /\ SearchRuns[k].ro.record_preemptions_to =
               Some(preempts_path("search_round", SearchRuns[k].idx))

\* C20: the knockout loop of the minimize branch terminates for every matching
\* record and every deterministic oracle, also when every truncation down to
\* the empty record still matches: an iteration that stays in the loop goes on
\* with a record of strictly fewer preemptions, so that the loop cannot go on
\* for ever.
C20_KnockoutLoopTerminates ==
    [][(pc = "knockout" /\ pc' = "knockout") =>
           Cardinality(loc'.pr.pre) < Cardinality(loc.pr.pre)]_vars

\* An iteration on a record that has preemptions left goes on with strictly
\* fewer of them (P7)
C20_KnockoutShrinksNonEmpty ==
    [][(pc = "knockout" /\ pc' = "knockout" /\ loc.pr.pre # {}) =>
           Cardinality(loc'.pr.pre) < Cardinality(loc.pr.pre)]_vars

Bisecting == pc = "bisect" \/ (pc = "phase6" /\ loc.i > 0)

C21_Inv ==
    Bisecting =>
        /\ loc.lo <= loc.hi
        /\ SubSeq(loc.failing_schedule, 1, loc.lo) = SubSeq(loc.passing_schedule, 1, loc.lo)
        /\ Matches(loc.failing_schedule)
        /\ ~Matches(loc.passing_schedule)

C21_Step ==
    (pc = "bisect" /\ pc' = "bisect") =>
        LET mid == Mid(loc.lo, loc.hi)
            H == Hybrid(loc.failing_schedule, loc.passing_schedule, mid)
        IN  /\ loc.lo < mid /\ mid < loc.hi
            /\ env'.runs[Len(env'.runs)].ro.replay_schedule_from = Some(bisect_path(loc'.i))
            /\ env'.files[bisect_path(loc'.i)].rec.sched = H
            /\ IF Matches(H)
               THEN /\ loc'.lo = mid /\ loc'.failing_schedule = H
                    /\ loc'.hi = loc.hi /\ loc'.passing_schedule = loc.passing_schedule
               ELSE /\ loc'.hi = mid /\ loc'.passing_schedule = H
                    /\ loc'.lo = loc.lo /\ loc'.failing_schedule = loc.failing_schedule

C22_Step ==
    (pc = "bisect" /\ pc' = "bisect") =>
        /\ loc'.hi - loc'.lo < loc.hi - loc.lo
        /\ loc'.hi - loc'.lo >= 1
        /\ loc'.i = loc.i + 1

C22_End ==
    pc = "phase6" =>
        /\ loc.hi - loc.lo = 1
        /\ loc.critical_event_index = loc.lo + 1

\* The probes made so far and the width still to search never exceed the
\* length of the schedules.
C22_Bounded ==
    pc = "bisect" =>
        /\ loc.hi - loc.lo >= 1
        /\ loc.i + (loc.hi - loc.lo) <= Len(loc.baseline)

\* The bisection always has a step to take: a probe or the return
C22_NeverStuck == pc = "bisect" => ENABLED (BisectProbe \/ Phase5Return)

\* C22: for every pair of schedules (target matching, baseline not matching)
\* and every deterministic oracle the bisection terminates after finitely
\* many probes: hi - lo strictly decreases at every probe and stays at least
\* 1, so that the probes are at most the length of the schedules, and the
\* search ends with hi - lo = 1 and critical_event_index = lo + 1.
C22_BisectionTerminates ==
    /\ [] C22_Bounded
    /\ [] C22_End
    /\ [][C22_Step]_vars

\* The search has ended after as many probes as it takes at most
C22_Witness ==
    /\ pc = "phase6"
    /\ loc.i = 2
    /\ loc.hi - loc.lo = 1
    /\ loc.critical_event_index = loc.lo + 1

Probes == RunsNamed("bisect_round")

ProbePaths(n) == {WsPath("bisect_round", n, ext) : ext \in {SCHED_EXT, LOG_EXT, "stdout", "stderr"}}

\* C23: within phase 5 the n-th probe (n = 1, 2, ...) is the run
\* bisect_round_n replaying bisect_round_n.events, the probes made are as many
\* as the probe counter says, and no .events, .log, .stdout or .stderr path of
\* a probe is written twice.
C23_ProbesNumberedInOrder ==
    /\ Len(Probes) = loc.i
    /\ \A n \in DOMAIN Probes :
         /\ Probes[n].idx = n
         /\ Probes[n].phase = 5
         /\ Probes[n].ro.replay_schedule_from = Some(bisect_path(n))
         /\ ProbePaths(n) \subseteq env.written
         /\ ProbePaths(n) \cap env.rewritten = {}
         /\ \A m \in DOMAIN Probes : m # n => ProbePaths(m) \cap ProbePaths(n) = {}

\* Two probes have been made
C23_Witness ==
    /\ pc = "phase6"
    /\ Len(Probes) = 2
    /\ Probes[1].idx = 1
    /\ Probes[2].idx = 2
    /\ env.files[bisect_path(1)].rec.sched # env.files[bisect_path(2)].rec.sched

\* The schedules the bisection has in hand before a probe: the hybrid it is
\* about to probe and its two ends
Candidates ==
    {Hybrid(loc.failing_schedule, loc.passing_schedule, Mid(loc.lo, loc.hi)),
     loc.failing_schedule, loc.passing_schedule}

\* The closure, called on sched in the current state, replays sched
Replays(t, sched) ==
    LET run == t.env.runs[Len(t.env.runs)]
    IN  /\ Len(t.env.runs) = Len(env.runs) + 1
        /\ run.ro.replay_schedule_from = Some(bisect_path(next_probe(loc.i)))
        /\ run.ro.replay_preemptions_from = NoneOpt
        /\ read_trace(t.env, bisect_path(next_probe(loc.i))) = sched
        /\ run.out = ProgramOutput(rt.race, sched)
        /\ t.actual = sched

\* C24 (amended): the predicate phase 5 hands to the bisector, given a
\* candidate schedule, replays exactly that schedule and returns false
\* exactly when the replay matches the criterion and true exactly when it
\* does not.
C24_PredicateIsNegatedMatch ==
    pc = "bisect" =>
        \A sched \in Candidates :
            LET t == test_fn(env, next_probe(loc.i), get_base_runopts(opts).ro, sched)
            IN  /\ Replays(t, sched)
                /\ t.passed <=> ~Matches(sched)

\* A probe whose replay matched has been answered with false: the bisection
\* took the hybrid for its failing schedule
C24_Witness ==
    /\ pc = "bisect"
    /\ Probes # <<>>
    /\ Probes[Len(Probes)].is_a_match
    /\ loc.failing_schedule = read_trace(env, bisect_path(loc.i))
    /\ loc.failing_schedule # loc.target

\* C24 as stated: the predicate returns true exactly when the replay matches.
C24_AsStated ==
    pc = "bisect" =>
        \A sched \in Candidates :
            LET t == test_fn(env, next_probe(loc.i), get_base_runopts(opts).ro, sched)
            IN  /\ Replays(t, sched)
                /\ t.passed <=> Matches(sched)

Phase2Returned == pc = "phase3" \/ 3 \in Range(started)

\* C25: with minimize disabled phase 2 launches no run and writes no
\* artifact: what main has after it is the record loaded from the input
\* preemption path, that same path, and the log path of phase 1 for phase 3.
C25_Phase2WithoutMinimize ==
    (~opts.minimize /\ Phase2Returned) =>
        /\ RunsOfPhase(2) = <<>>
        /\ RunsNamed("minimized") = <<>>
        /\ \A p \in env.written : p.run # "minimized"
        /\ loc.min_preempts = load_all(env, loc.preempts_path)
        /\ loc.min_preempts_path = loc.preempts_path
        /\ loc.min_log_path = loc.run1_log_path
        /\ loc.run1_log_path = log_path("phase1_target", 0)

\* Phase 2 has returned a record with preemptions unminimized, and the
\* self-check has compared against the log of phase 1
C25_Witness ==
    /\ ~opts.minimize
    /\ opts.selfcheck
    /\ pc = "target"
    /\ loc.min_preempts.pre # {}
    /\ loc.min_log_path = log_path("phase1_target", 0)
    /\ RunsNamed("run1b_selfcheck") # <<>>

\* The log and the preemption file phase 1 returned come from one run, and
\* that run matched
SameMatchingRun(lp, pp) ==
    /\ Exists(env, lp)
    /\ Exists(env, pp)
    /\ env.files[lp].m
    /\ env.files[pp].m
    /\ env.files[lp].by = env.files[pp].by
    /\ env.files[lp].log.sched = env.files[pp].rec.sched

\* C26: whenever phase 1 has returned (log path, preemption path), both
\* artifacts come from the same run and that run is the matching target run,
\* also when the first run did not match and the target was found by the
\* seed search.  Stated for the invocations in which phase 1 launches a run
\* (without --run1-preemptions).
C26_Phase1ArtifactsFromOneRun ==
    (Phase1Returned /\ ~IsSome(opts.run1_preemptions)) =>
        SameMatchingRun(loc.run1_log_path, loc.preempts_path)

\* The same when the first run matched: no search
C26_WithoutSearch ==
    (Phase1Returned /\ ~IsSome(opts.run1_preemptions) /\ SearchRuns = <<>>) =>
        SameMatchingRun(loc.run1_log_path, loc.preempts_path)

BaselineEndpointRuns == RunsNamed("verify_baseline_endpoint")

\* C27: every preemption record that save_final_baseline_sched_events writes
\* to final_pass.preempts and replays under the run name
\* verify_baseline_endpoint is a baseline record: its replay does not match
\* the criterion, for the call main makes after phase 4 as for the calls made
\* inside phase 4.
C27_BaselineEndpointNeverMatches ==
    \A k \in DOMAIN BaselineEndpointRuns :
        /\ BaselineEndpointRuns[k].ro.replay_preemptions_from = Some(final_pass_preempts_path)
        /\ ~BaselineEndpointRuns[k].is_a_match

\* What main replays after phase 4 is the record phase 4 returned
C27_MainReplaysReturnedRecord ==
    \A k \in DOMAIN BaselineEndpointRuns :
        BaselineEndpointRuns[k].phase = 0 =>
            /\ BaselineEndpointRuns[k].ro.record_preemptions_to = Some(target_sched_events_path)
            /\ BaselineEndpointRuns[k].out =
                   ProgramOutput(rt.race, SchedOfPreempts(loc.final_pr.pre))

\* main has read the two traces after the knockout loop of phase 4
KnockoutEndpointsRead ==
    /\ ReachedPhase5
    /\ opts.minimize
    /\ ~IsSome(opts.run2_seed)
    /\ ~IsSome(opts.run2_preemptions)

\* C28: in the minimize branch the two endpoints handed to phase 5 are one
\* knockout apart: the target schedule is recorded by replaying the record R
\* that phase 4 returns, the baseline schedule by replaying
\* R.with_latest_preempt_removed(), R matches and its truncation does not,
\* also when several knockouts were needed and R is no longer the normalized
\* minimized record.
C28_EndpointsOneKnockoutApart ==
    KnockoutEndpointsRead =>
        LET R == loc.final_pr
            T == with_latest_preempt_removed(R)
            tf == env.files[target_sched_events_path]
            bf == env.files[loc.non_matching_sched_events_path]
        IN  /\ loc.target = SchedOfPreempts(R.pre)
            /\ tf.rec.sched = loc.target
            /\ tf.by = "verify_baseline_endpoint"
            /\ tf.m
            /\ loc.baseline = SchedOfPreempts(T.pre)
            /\ bf.rec.sched = loc.baseline
            /\ bf.by = "baseline_nearby_non_matching"
            /\ ~bf.m
            /\ T.pre # R.pre
            /\ RecordMatches(R)
            /\ ~RecordMatches(T)

\* Two knockouts were needed: the returned record is not the normalized
\* minimized record
C28_Witness ==
    /\ KnockoutEndpointsRead
    /\ loc.knockouts = 2
    /\ loc.final_pr # loc.normalized_preempts
    /\ loc.target # loc.baseline
    /\ load_all(env, normalized_preempts_path) = loc.normalized_preempts

InWorkspace(p) == p.dir = "tmp_dir"

\* C29: the analyzer never writes to a user-supplied input file: every path
\* it writes, and every path it passes to a run as record_preemptions_to,
\* lies inside the workspace directory, and the files named by
\* run1_preemptions and run2_preemptions are as the user left them.
C29_WritesOnlyInWorkspace ==
    /\ \A p \in env.written : InWorkspace(p)
    /\ \A k \in DOMAIN env.runs :
         IsSome(env.runs[k].ro.record_preemptions_to) =>
             InWorkspace(env.runs[k].ro.record_preemptions_to[1])
    /\ env.files[run1_user_path].by = "user"
    /\ env.files[run2_user_path].by = "user"

\* The file named by run1_preemptions is only read, and every path written
\* but the one named by run2_preemptions and the report file lies inside the
\* workspace
C29_Run1FileOnlyRead ==
    /\ \A p \in env.written :
         (p # run2_user_path /\ Some(p) # opts.report_file) => InWorkspace(p)
    /\ env.files[run1_user_path].by = "user"

RECURSIVE SeedOfRound(_, _)
\* The sched_seed of round k (from 0) of a search seeded with s
SeedOfRound(s, k) == IF k = 0 THEN RngNext(s) ELSE RngNext(SeedOfRound(s, k - 1))

\* The schedule a run seeded with sched_seed executes, and whether it matches
SeededSchedule(sched_seed) ==
    RunSchedule(rt, <<>>, [DefaultRunOpts(FALSE) EXCEPT !.sched_seed = Some(sched_seed)])
SeedMatches(sched_seed) == Matches(SeededSchedule(sched_seed))

SearchReturned == SearchRuns # <<>> /\ pc # "search"

\* C30: the seed search is a function of analyze_seed and the oracle: round k
\* is launched with the k-th number of the sequence seeded with analyze_seed,
\* the search stops at the first round whose seed's run matches, and the
\* copied preemption file is the one that round recorded, so that two
\* invocations with the same analyze_seed launch the same sched_seeds and
\* stop at the same round with the same file.
C30_SearchDeterministic ==
    IsSome(opts.analyze_seed) =>
        LET s == opts.analyze_seed[1]
        IN  /\ \A k \in DOMAIN SearchRuns :
                 /\ SearchRuns[k].ro.sched_seed = Some(SeedOfRound(s, k - 1))
                 /\ SearchRuns[k].is_a_match = SeedMatches(SeedOfRound(s, k - 1))
            /\ SearchReturned =>
                 LET last == Len(SearchRuns) - 1
                 IN  /\ SeedMatches(SeedOfRound(s, last))
                     /\ \A j \in 0..(last - 1) : ~SeedMatches(SeedOfRound(s, j))
                     /\ Phase1Returned =>
                          load_all(env, preempts_path("phase1_target", 0)) =
                              Recorded(PreemptsOfSeed(SeedOfRound(s, last)),
                                       SeededSchedule(SeedOfRound(s, last)))

\* A search seeded by the user has stopped at its second round or later
C30_Witness ==
    /\ IsSome(opts.analyze_seed)
    /\ pc = "phase2"
    /\ Len(SearchRuns) >= 2
    /\ SearchRuns[Len(SearchRuns)].is_a_match
    /\ SearchRuns[1].ro.sched_seed # SearchRuns[2].ro.sched_seed

====
